---- MODULE Spec2Model ----
(***************************************************************************)
(* Model of app.py: one page run (refresh cycle) of the Agentic ELT demo.  *)
(* A cycle selects one source, fetches its endpoint, normalizes the        *)
(* payload into a data frame, renders it, and prints the commentary of     *)
(* Agent 1 (primary) or Agent 2 (backup).                                  *)
(*                                                                         *)
(* Python values are tagged records, so that values of different Python    *)
(* types can be compared: None / JSON null is Null, a dict is Obj over an  *)
(* ordered sequence of <<key, value>> pairs (dicts keep insertion order).  *)
(* A call that may raise returns Ok(value) or Raise(exception class).      *)
(***************************************************************************)
EXTENDS Integers, Sequences, FiniteSets, TLC

\* ------------------------------------------------------------------------
\* Bounds of the explored payloads
\* ------------------------------------------------------------------------
\* longest list (results, measurements, features, events) and largest number
\* of keys (assets, rates) in a generated payload
MaxItems == 2

\* ------------------------------------------------------------------------
\* Python / JSON values
\* ------------------------------------------------------------------------
Null == [t |-> "null"]
NaN == [t |-> "nan"]
Num(n) == [t |-> "num", v |-> n]
Str(s) == [t |-> "str", v |-> s]
Bool(b) == [t |-> "bool", v |-> b]
List(s) == [t |-> "list", v |-> s]
Obj(s) == [t |-> "obj", v |-> s]

Ok(v) == [ok |-> TRUE, val |-> v]
Raise(e) == [ok |-> FALSE, exc |-> e]

Range(s) == {s[i] : i \in 1..Len(s)}
Min(a, b) == IF a < b THEN a ELSE b

RECURSIVE Concat(_)
Concat(ss) == IF Len(ss) = 0 THEN <<>> ELSE Head(ss) \o Concat(Tail(ss))

\* the keys of a dict, in insertion order
Keys(d) == [i \in 1..Len(d.v) |-> d.v[i][1]]
HasKey(d, k) == \E i \in 1..Len(d.v) : d.v[i][1] = k
Lookup(d, k) == d.v[CHOOSE i \in 1..Len(d.v) : d.v[i][1] = k][2]

\* x.get(k, dflt): only a dict has .get; str, list, int, bool and None raise
\* AttributeError
Get(d, k, dflt) ==
  IF d.t # "obj" THEN Raise("AttributeError")
  ELSE Ok(IF HasKey(d, k) THEN Lookup(d, k) ELSE dflt)

\* the characters of the strings the model iterates over; a string outside the
\* table is given as many characters as it has
Chars(s) ==
  CASE s = "" -> <<>>
    [] s = "abc" -> <<"a", "b", "c">>
    [] s = "oops" -> <<"o", "o", "p", "s">>
    [] OTHER -> [i \in 1..Len(s) |-> "?"]

\* for x in v: a list yields its items, a dict its keys, a str its characters;
\* a number, a bool or None is not iterable (TypeError)
Iter(v) ==
  CASE v.t = "list" -> Ok(v.v)
    [] v.t = "obj" -> Ok([i \in 1..Len(v.v) |-> Str(v.v[i][1])])
    [] v.t = "str" -> Ok([i \in 1..Len(Chars(v.v)) |-> Str(Chars(v.v)[i])])
    [] OTHER -> Raise("TypeError")

\* d.items(): only a dict has .items
Items(d) == IF d.t # "obj" THEN Raise("AttributeError") ELSE Ok(d.v)

\* bool(v)
Truthy(v) ==
  CASE v.t = "null" -> FALSE
    [] v.t = "nan" -> TRUE
    [] v.t = "num" -> v.v # 0
    [] v.t = "bool" -> v.v
    [] v.t = "str" -> v.v # ""
    [] OTHER -> Len(v.v) > 0

\* the results of a loop body over the items of a loop, each Ok(rows) or a
\* Raise: the loop ends at the first body that raises, and otherwise the rows
\* are appended in item order
Gather(rs) ==
  IF \A i \in 1..Len(rs) : rs[i].ok
  THEN Ok(Concat([i \in 1..Len(rs) |-> rs[i].val]))
  ELSE rs[CHOOSE i \in 1..Len(rs) : ~rs[i].ok /\ \A j \in 1..(i - 1) : rs[j].ok]

\* ------------------------------------------------------------------------
\* SOURCES (the ten source identifiers and what the cycle reads of them)
\* ------------------------------------------------------------------------
SourceKeys ==
  <<"openaq", "open_meteo", "coingecko", "usgs_quakes", "spacex",
    "github_events", "nws_alerts", "fx_rates", "iss_now", "binance">>

SOURCES == Range(SourceKeys)

\* SOURCES[k][1], cut to the host: the only part of the URL fetch looks at
Url(k) ==
  CASE k = "openaq" -> "api.openaq.org"
    [] k = "open_meteo" -> "api.open-meteo.com"
    [] k = "coingecko" -> "api.coingecko.com"
    [] k = "usgs_quakes" -> "earthquake.usgs.gov"
    [] k = "spacex" -> "api.spacexdata.com"
    [] k = "github_events" -> "api.github.com"
    [] k = "nws_alerts" -> "api.weather.gov"
    [] k = "fx_rates" -> "api.exchangerate.host"
    [] k = "iss_now" -> "api.open-notify.org"
    [] OTHER -> "api.binance.com"

\* ------------------------------------------------------------------------
\* fetch
\* ------------------------------------------------------------------------
\* the timeout fetch passes to requests.get
Timeout == 15

\* "weather.gov" in url
IsWeatherGov(url) == url = "api.weather.gov"

\* the headers fetch sends: hdrs = headers or {}, plus the User-Agent the NWS
\* endpoint requires (the cycle passes no headers)
Hdrs(url) == IF IsWeatherGov(url) THEN {"User-Agent"} ELSE {}

\* r.raise_for_status() raises HTTPError for a 4xx or 5xx status
RaisesForStatus(status) == status >= 400 /\ status < 600

\* fetch with the slip of handing back the body of an error response
fetch_KeepsErrorBody(url, o) ==
  IF o.kind = "exc" THEN <<Null, Str(o.msg)>>
  ELSE IF RaisesForStatus(o.status)
       THEN <<o.body, Str(ToString(o.status) \o " Error for url: " \o url)>>
       ELSE <<o.body, Null>>

\* What the single GET does, as fetch sees it:
\*   [kind |-> "exc", msg |-> m]    requests.get raises (connection failure,
\*                                  timeout) and str(e) is m
\*   [kind |-> "resp", status |-> n, json |-> b, body |-> v]
\*                                  a response: r.json() returns v when b,
\*                                  and raises when ~b, where r.text is v
\* fetch returns the pair <<payload, error>>.
fetch(url, o) ==
  IF o.kind = "exc" THEN <<Null, Str(o.msg)>>
  ELSE IF RaisesForStatus(o.status)
       THEN <<Null, Str(ToString(o.status) \o " Error for url: " \o url)>>
       ELSE <<o.body, Null>>

\* ------------------------------------------------------------------------
\* The payloads explored
\* ------------------------------------------------------------------------
SeqsUpTo(S, n) == UNION {[1..k -> S] : k \in 0..n}

\* the dicts with at most n of the keys K, in every order, with values in V
DictsOver(K, V, n) ==
  {Obj([i \in 1..Len(ks) |-> <<ks[i], vs[i]>>]) :
     <<ks, vs>> \in {p \in SeqsUpTo(K, n) \X SeqsUpTo(V, n) :
                       /\ Len(p[1]) = Len(p[2])
                       /\ \A i, j \in 1..Len(p[1]) : p[1][i] = p[1][j] => i = j}}

\* values of the wrong shape for any position
Malformed == {Null, Num(7), Str("abc"), Str(""), Bool(TRUE), List(<<Num(1)>>)}

\* payloads of no source's shape
Generic ==
  Malformed \cup
  {List(<<>>), List(<<Obj(<<>>)>>), Obj(<<>>), Obj(<< <<"error", Str("abc")>> >>)}

\* a dict with the one key k, for each of the values
Under(k, V) == {Obj(<< <<k, v>> >>) : v \in V}

MeasFull ==
  Obj(<< <<"parameter", Str("pm25")>>, <<"value", Num(12)>>,
         <<"unit", Str("ug/m3")>>, <<"lastUpdated", Str("2024-01-01")>> >>)
Measurements == SeqsUpTo({MeasFull, Obj(<< <<"parameter", Str("o3")>> >>)}, MaxItems)
Results ==
  {Obj(<<>>), Obj(<< <<"city", Str("Leeds")>> >>)} \cup
  {Obj(<< <<"city", c>>, <<"measurements", List(m)>> >>) :
     c \in {Str("Delhi"), Str("Lima")}, m \in Measurements}
OpenaqPayloads ==
  Under("results", {List(r) : r \in SeqsUpTo(Results, MaxItems)}) \cup
  Under("results", Malformed \cup {Obj(<<>>)}) \cup
  Under("results",
        {List(<<x>>) : x \in Malformed \cup Under("measurements", Malformed)})

Current ==
  DictsOver({"temperature_2m", "wind_speed_10m", "time"},
            {Num(18), Str("42"), Str("abc"), Null}, MaxItems)
OpenMeteoPayloads == Under("current", Current \cup Malformed)

CoinEntries ==
  {Obj(<< <<"usd", Num(65000)>> >>), Obj(<< <<"usd", Num(3200)>> >>),
   Obj(<< <<"usd", Str("abc")>> >>), Obj(<<>>), Num(1)}
CoingeckoPayloads == DictsOver({"bitcoin", "ethereum", "dogecoin"}, CoinEntries, MaxItems)

QuakeProps ==
  {Obj(<<>>),
   Obj(<< <<"time", Num(90061001)>>, <<"mag", Num(5)>>,
          <<"place", Str("Fiji")>>, <<"type", Str("earthquake")>> >>),
   Obj(<< <<"time", Num(1000)>>, <<"mag", Null>>, <<"place", Str("Chile")>> >>),
   Obj(<< <<"time", Num(0)>>, <<"mag", Num(2)>> >>),
   Obj(<< <<"time", Str("abc")>>, <<"mag", Num(3)>> >>),
   Null}
QuakeFeatures == {Obj(<<>>)} \cup Under("properties", QuakeProps)
UsgsPayloads ==
  Under("features", {List(f) : f \in SeqsUpTo(QuakeFeatures, MaxItems)}) \cup
  Under("features", Malformed)

SpacexPayloads ==
  DictsOver({"name", "date_utc", "success", "flight_number"},
            {Str("Crew-5"), Bool(TRUE), Num(187), Null}, MaxItems)

Events ==
  {Obj(<<>>),
   Obj(<< <<"type", Str("PushEvent")>>,
          <<"repo", Obj(<< <<"name", Str("octo/repo")>> >>)>>,
          <<"actor", Obj(<< <<"login", Str("octo")>> >>)>>,
          <<"created_at", Str("2024-01-01")>> >>),
   Obj(<< <<"type", Str("ForkEvent")>>, <<"repo", Obj(<<>>)>> >>),
   Obj(<< <<"type", Str("PushEvent")>>, <<"repo", Null>> >>),
   Num(1)}
GithubPayloads ==
  {List(e) : e \in SeqsUpTo(Events, MaxItems)} \cup
  Under("message", {Str("API rate limit exceeded")})

AlertProps ==
  {Obj(<<>>),
   Obj(<< <<"event", Str("Flood")>>, <<"areaDesc", Str("Ohio")>>,
          <<"severity", Str("Severe")>>, <<"sent", Str("2024-01-01")>> >>),
   Obj(<< <<"event", Str("Frost")>> >>),
   Str("abc")}
AlertFeatures == {Obj(<<>>)} \cup Under("properties", AlertProps)
NwsPayloads ==
  Under("features", {List(f) : f \in SeqsUpTo(AlertFeatures, MaxItems)}) \cup
  Under("features", Malformed)

Rates == DictsOver({"EUR", "GBP", "JPY"}, {Num(92), Num(150), Str("abc"), Null}, MaxItems)
FxPayloads ==
  {Obj(<< <<"base", Str("USD")>>, <<"date", Str("2024-01-01")>>, <<"rates", r>> >>) :
     r \in Rates \cup Malformed} \cup
  Under("rates", Rates) \cup
  {Obj(<< <<"base", b>>, <<"rates", Obj(<< <<"EUR", Num(92)>> >>)>> >>) :
     b \in {Null, Num(1), Bool(FALSE), List(<<Str("USD"), Num(1)>>), Obj(<< <<"a", Null>> >>)}}

Position ==
  DictsOver({"latitude", "longitude"}, {Str("51.5"), Num(0)}, MaxItems)
IssPayloads ==
  {Obj(<< <<"iss_position", p>>, <<"timestamp", Num(1700)>> >>) : p \in Position} \cup
  Under("iss_position", Position \cup Malformed)

BinancePayloads ==
  DictsOver({"symbol", "price", "code"},
            {Str("BTCUSDT"), Str("42"), Num(7), List(<<Num(1)>>)}, MaxItems) \cup
  {List(<<Num(1), Str("abc")>>)}

\* the JSON bodies an endpoint may answer with
Payloads(k) ==
  Generic \cup
  CASE k = "openaq" -> OpenaqPayloads
    [] k = "open_meteo" -> OpenMeteoPayloads
    [] k = "coingecko" -> CoingeckoPayloads
    [] k = "usgs_quakes" -> UsgsPayloads
    [] k = "spacex" -> SpacexPayloads
    [] k = "github_events" -> GithubPayloads
    [] k = "nws_alerts" -> NwsPayloads
    [] k = "fx_rates" -> FxPayloads
    [] k = "iss_now" -> IssPayloads
    [] OTHER -> BinancePayloads

\* what the GET to the endpoint of source k may do
Outcomes(k) ==
  {[kind |-> "exc", msg |-> m] : m \in {"Read timed out", ""}} \cup
  {[kind |-> "resp", status |-> n, json |-> TRUE, body |-> Obj(<<>>)] :
     n \in {404, 503}} \cup
  {[kind |-> "resp", status |-> 200, json |-> TRUE, body |-> v] : v \in Payloads(k)} \cup
  {[kind |-> "resp", status |-> n, json |-> FALSE, body |-> Str(s)] :
     n \in {200, 204}, s \in {"", "oops"}}

\* ------------------------------------------------------------------------
\* Formatting helpers
\* ------------------------------------------------------------------------
Pad2(n) == IF n < 10 THEN "0" \o ToString(n) ELSE ToString(n)

\* datetime.utcfromtimestamp(secs).strftime("%Y-%m-%d %H:%M:%S"), for whole
\* seconds since the epoch (days to civil date, proleptic Gregorian)
Strftime(secs) ==
  LET days == secs \div 86400
      rem == secs % 86400
      z == days + 719468
      era == z \div 146097
      doe == z - era * 146097
      yoe == (doe - doe \div 1460 + doe \div 36524 - doe \div 146096) \div 365
      doy == doe - (365 * yoe + yoe \div 4 - yoe \div 100)
      mp == (5 * doy + 2) \div 153
      d == doy - (153 * mp + 2) \div 5 + 1
      m == IF mp < 10 THEN mp + 3 ELSE mp - 9
      y == yoe + era * 400 + (IF m <= 2 THEN 1 ELSE 0)
  IN ToString(y) \o "-" \o Pad2(m) \o "-" \o Pad2(d) \o " " \o
     Pad2(rem \div 3600) \o ":" \o Pad2((rem % 3600) \div 60) \o ":" \o Pad2(rem % 60)

\* tstr = datetime.utcfromtimestamp(ts/1000).strftime(...) if ts else None
\* (ts/1000 is a TypeError for a str, list or dict; True/1000 is 0.001)
TimeStr(ts) ==
  IF ~Truthy(ts) THEN Ok(Null)
  ELSE CASE ts.t = "num" -> Ok(Str(Strftime(ts.v \div 1000)))
         [] ts.t = "bool" -> Ok(Str(Strftime(0)))
         [] ts.t = "nan" -> Raise("ValueError")
         [] OTHER -> Raise("TypeError")

RECURSIVE Join(_, _)
Join(ss, sep) ==
  IF Len(ss) = 0 THEN ""
  ELSE IF Len(ss) = 1 THEN ss[1] ELSE ss[1] \o sep \o Join(Tail(ss), sep)

\* repr(v)
RECURSIVE Repr(_)
Repr(v) ==
  CASE v.t = "null" -> "None"
    [] v.t = "nan" -> "nan"
    [] v.t = "num" -> ToString(v.v)
    [] v.t = "bool" -> IF v.v THEN "True" ELSE "False"
    [] v.t = "str" -> "'" \o v.v \o "'"
    [] v.t = "list" -> "[" \o Join([i \in 1..Len(v.v) |-> Repr(v.v[i])], ", ") \o "]"
    [] OTHER ->
         "{" \o Join([i \in 1..Len(v.v) |->
                        "'" \o v.v[i][1] \o "': " \o Repr(v.v[i][2])], ", ") \o "}"

\* str(v), as an f-string formats a value
PyStr(v) == IF v.t = "str" THEN v.v ELSE Repr(v)

\* ------------------------------------------------------------------------
\* pandas.DataFrame
\* ------------------------------------------------------------------------
IsNull(c) == c.t \in {"null", "nan"}

\* pd.DataFrame(rows) for a list of dicts: the columns are the keys of the
\* rows, a key a row lacks is a missing cell, and a column of numbers and
\* missing cells is a float column whose missing cells are NaN
DataFrame(rows) ==
  LET cols == UNION {DOMAIN rows[i] : i \in 1..Len(rows)}
      cell(i, c) == IF c \in DOMAIN rows[i] THEN rows[i][c] ELSE Null
      isFloat(c) ==
        /\ \A i \in 1..Len(rows) : cell(i, c).t \in {"num", "null"}
        /\ \E i \in 1..Len(rows) : cell(i, c).t = "num"
  IN [columns |-> cols,
      data |-> [i \in 1..Len(rows) |->
                  [c \in cols |->
                     IF isFloat(c) /\ cell(i, c).t = "null" THEN NaN ELSE cell(i, c)]]]

\* pd.DataFrame()
EmptyFrame == DataFrame(<<>>)

\* df.empty: no rows or no columns
Empty(df) == Len(df.data) = 0 \/ df.columns = {}

\* len(df)
Length(df) == Len(df.data)

\* ------------------------------------------------------------------------
\* normalize_to_df, branch by branch: Ok(list of row dicts) or Raise
\* ------------------------------------------------------------------------
\* m.get(k): the value, or None when the key is absent
Field(d, k) == IF HasKey(d, k) THEN Lookup(d, k) ELSE Null

\* OpenaqResult with the slip of keeping only the first measurement of a result
OpenaqResult_FirstMeasurementOnly(res) ==
  IF res.t # "obj" THEN Raise("AttributeError")
  ELSE LET ms == Iter(Get(res, "measurements", List(<<>>)).val)
       IN IF ~ms.ok THEN ms
          ELSE Gather([j \in 1..Min(Len(ms.val), 1) |->
                 LET m == ms.val[j]
                 IN IF m.t # "obj" THEN Raise("AttributeError")
                    ELSE Ok(<<[city |-> Field(res, "city"),
                               parameter |-> Field(m, "parameter"),
                               value |-> Field(m, "value"),
                               unit |-> Field(m, "unit"),
                               updated |-> Field(m, "lastUpdated")]>>)])

\* the rows one result contributes
OpenaqResult(res) ==
  IF res.t # "obj" THEN Raise("AttributeError")
  ELSE LET ms == Iter(Get(res, "measurements", List(<<>>)).val)
       IN IF ~ms.ok THEN ms
          ELSE Gather([j \in 1..Len(ms.val) |->
                 LET m == ms.val[j]
                 IN IF m.t # "obj" THEN Raise("AttributeError")
                    ELSE Ok(<<[city |-> Field(res, "city"),
                               parameter |-> Field(m, "parameter"),
                               value |-> Field(m, "value"),
                               unit |-> Field(m, "unit"),
                               updated |-> Field(m, "lastUpdated")]>>)])

NormOpenaq(raw) ==
  LET results == Get(raw, "results", List(<<>>))
  IN IF ~results.ok THEN results
     ELSE LET it == Iter(results.val)
          IN IF ~it.ok THEN it
             ELSE Gather([i \in 1..Len(it.val) |-> OpenaqResult(it.val[i])])

NormOpenMeteo(raw) ==
  LET cur == Get(raw, "current", Obj(<<>>))
  IN IF ~cur.ok THEN cur
     ELSE IF cur.val.t # "obj" THEN Raise("AttributeError")
     ELSE Ok(<<[temperature_2m |-> Field(cur.val, "temperature_2m"),
                wind_speed_10m |-> Field(cur.val, "wind_speed_10m"),
                time |-> Field(cur.val, "time")]>>)

\* NormCoingecko with the slip of storing the entry itself instead of its usd
NormCoingecko_WholeEntry(raw) ==
  LET items == Items(raw)
  IN IF ~items.ok THEN items
     ELSE Gather([i \in 1..Len(items.val) |->
            LET k == items.val[i][1]
                v == items.val[i][2]
            IN IF v.t # "obj" THEN Raise("AttributeError")
               ELSE Ok(<<[asset |-> Str(k), usd |-> v]>>)])

NormCoingecko(raw) ==
  LET items == Items(raw)
  IN IF ~items.ok THEN items
     ELSE Gather([i \in 1..Len(items.val) |->
            LET k == items.val[i][1]
                v == items.val[i][2]
            IN IF v.t # "obj" THEN Raise("AttributeError")
               ELSE Ok(<<[asset |-> Str(k), usd |-> Field(v, "usd")]>>)])

UsgsFeature(f) ==
  LET p == Get(f, "properties", Obj(<<>>))
  IN IF ~p.ok THEN p
     ELSE LET ts == Get(p.val, "time", Num(0))
          IN IF ~ts.ok THEN ts
             ELSE LET tstr == TimeStr(ts.val)
                  IN IF ~tstr.ok THEN tstr
                     ELSE Ok(<<[time |-> tstr.val,
                                mag |-> Field(p.val, "mag"),
                                place |-> Field(p.val, "place"),
                                type |-> Field(p.val, "type")]>>)

NormUsgs(raw) ==
  LET feats == Get(raw, "features", List(<<>>))
  IN IF ~feats.ok THEN feats
     ELSE LET it == Iter(feats.val)
          IN IF ~it.ok THEN it
             ELSE Gather([i \in 1..Len(it.val) |-> UsgsFeature(it.val[i])])

NormSpacex(raw) ==
  IF raw.t # "obj" THEN Raise("AttributeError")
  ELSE Ok(<<[name |-> Field(raw, "name"),
             date_utc |-> Field(raw, "date_utc"),
             success |-> Field(raw, "success"),
             flight_number |-> Field(raw, "flight_number")]>>)

\* the events the GitHub branch keeps
EventLimit == 30

\* raw[:30]: a list or a str is sliced; a dict, a number or a bool is not
\* (TypeError; KeyError for a dict from Python 3.12 on)
Slice(raw, n) ==
  CASE raw.t = "list" -> Ok(List(SubSeq(raw.v, 1, Min(Len(raw.v), n))))
    [] raw.t = "str" ->
         Ok(List([i \in 1..Min(Len(Chars(raw.v)), n) |-> Str(Chars(raw.v)[i])]))
    [] OTHER -> Raise("TypeError")

GithubEvent(ev) ==
  IF ev.t # "obj" THEN Raise("AttributeError")
  ELSE LET repo == Get(ev, "repo", Obj(<<>>)).val
           actor == Get(ev, "actor", Obj(<<>>)).val
       IN IF repo.t # "obj" \/ actor.t # "obj" THEN Raise("AttributeError")
          ELSE Ok(<<[type |-> Field(ev, "type"),
                     repo |-> Field(repo, "name"),
                     actor |-> Field(actor, "login"),
                     created_at |-> Field(ev, "created_at")]>>)

NormGithub(raw) ==
  LET evs == Slice(raw, EventLimit)
  IN IF ~evs.ok THEN evs
     ELSE Gather([i \in 1..Len(evs.val.v) |-> GithubEvent(evs.val.v[i])])

NwsFeature(f) ==
  LET p == Get(f, "properties", Obj(<<>>))
  IN IF ~p.ok THEN p
     ELSE IF p.val.t # "obj" THEN Raise("AttributeError")
     ELSE Ok(<<[event |-> Field(p.val, "event"),
                area |-> Field(p.val, "areaDesc"),
                severity |-> Field(p.val, "severity"),
                sent |-> Field(p.val, "sent")]>>)

NormNws(raw) ==
  LET feats == Get(raw, "features", List(<<>>))
  IN IF ~feats.ok THEN feats
     ELSE LET it == Iter(feats.val)
          IN IF ~it.ok THEN it
             ELSE Gather([i \in 1..Len(it.val) |-> NwsFeature(it.val[i])])

NormFx(raw) ==
  IF raw.t # "obj" THEN Raise("AttributeError")
  ELSE LET base == Field(raw, "base")
           date == Field(raw, "date")
           items == Items(Get(raw, "rates", Obj(<<>>)).val)
       IN IF ~items.ok THEN items
          ELSE Ok([i \in 1..Len(items.val) |->
                     [pair |-> Str(PyStr(base) \o "/" \o items.val[i][1]),
                      rate |-> items.val[i][2],
                      date |-> date]])

NormIss(raw) ==
  LET pos == Get(raw, "iss_position", Obj(<<>>))
  IN IF ~pos.ok THEN pos
     ELSE IF pos.val.t # "obj" THEN Raise("AttributeError")
     ELSE Ok(<<[latitude |-> Field(pos.val, "latitude"),
                longitude |-> Field(pos.val, "longitude"),
                timestamp |-> Field(raw, "timestamp")]>>)

\* [raw]: pd.DataFrame takes a dict as a row of its keys, a list as a row of
\* its positions (columns 0, 1, ...), and a scalar as a row of the one column 0
NormBinance(raw) ==
  CASE raw.t = "obj" ->
         Ok(<<[k \in Range(Keys(raw)) |-> Lookup(raw, k)]>>)
    [] raw.t = "list" ->
         Ok(<<[c \in {ToString(i - 1) : i \in 1..Len(raw.v)} |->
                 raw.v[CHOOSE i \in 1..Len(raw.v) : ToString(i - 1) = c]]>>)
    [] OTHER -> Ok(<<[c \in {"0"} |-> raw]>>)

\* normalize_to_df(key, raw): Ok(data frame) or Raise(exception)
normalize_to_df(key, raw) ==
  IF raw = Null THEN Ok(EmptyFrame)
  ELSE LET rows ==
             CASE key = "openaq" -> NormOpenaq(raw)
               [] key = "open_meteo" -> NormOpenMeteo(raw)
               [] key = "coingecko" -> NormCoingecko(raw)
               [] key = "usgs_quakes" -> NormUsgs(raw)
               [] key = "spacex" -> NormSpacex(raw)
               [] key = "github_events" -> NormGithub(raw)
               [] key = "nws_alerts" -> NormNws(raw)
               [] key = "fx_rates" -> NormFx(raw)
               [] key = "iss_now" -> NormIss(raw)
               [] key = "binance" -> NormBinance(raw)
               [] OTHER -> Ok(<<>>)
       IN IF rows.ok THEN Ok(DataFrame(rows.val)) ELSE rows

\* ------------------------------------------------------------------------
\* What the page shows: a sequence of items [kind, arg]
\* ------------------------------------------------------------------------
Item(kind, arg) == [kind |-> kind, arg |-> arg]

\* SOURCES[k][0], the label of a source, stands for itself
Label(k) == Str(k)

\* ------------------------------------------------------------------------
\* The insight of Agent 1: whether its try block ends without an exception
\* (the text of the appended line is not modelled)
\* ------------------------------------------------------------------------
\* the strings float() parses, among the strings of the payloads explored
NumericStrs == {"42", "51.5"}

\* float(c) returns: a number, NaN, a bool or a numeric string; None, a list
\* or a dict is a TypeError and any other string a ValueError
FloatOk(c) ==
  \/ c.t \in {"num", "nan", "bool"}
  \/ c.t = "str" /\ c.v \in NumericStrs

\* format(c, ".3f") returns
FormatFloatOk(c) == c.t \in {"num", "nan", "bool"}

\* the cells of column c that are not null, in row order
NonNull(df, c) ==
  SelectSeq([i \in 1..Len(df.data) |-> df.data[i][c]], LAMBDA x : ~IsNull(x))

\* sort_values compares the cells that are not null: numbers with numbers,
\* strings with strings (dicts never compare)
SortOk(cells) ==
  \/ Len(cells) <= 1
  \/ \A i \in 1..Len(cells) : cells[i].t \in {"num", "bool"}
  \/ \A i \in 1..Len(cells) : cells[i].t = "str"

\* df.loc[df["asset"] == a, "usd"].values[0], then float(): IndexError when
\* no row has the asset
AssetOk(df, a) ==
  /\ {"asset", "usd"} \subseteq df.columns
  /\ LET sel == SelectSeq(df.data, LAMBDA r : r.asset = Str(a))
     IN Len(sel) > 0 /\ FloatOk(sel[1].usd)

InsightOk(choice_key, df) ==
  CASE choice_key = "coingecko" -> AssetOk(df, "bitcoin") /\ AssetOk(df, "ethereum")
    [] choice_key = "usgs_quakes" ->
         \* dropna(subset=["mag"]), sort by time, .iloc[0] of the first row
         /\ {"mag", "time", "place"} \subseteq df.columns
         /\ Len(NonNull(df, "mag")) > 0
         /\ SortOk(NonNull(df, "time"))
    [] choice_key = "fx_rates" ->
         \* the top row of the sort has the largest rate that is not null
         /\ {"rate", "pair"} \subseteq df.columns
         /\ SortOk(NonNull(df, "rate"))
         /\ Len(NonNull(df, "rate")) > 0
         /\ FormatFloatOk(NonNull(df, "rate")[1])
    [] choice_key = "open_meteo" ->
         /\ {"temperature_2m", "wind_speed_10m"} \subseteq df.columns
         /\ FloatOk(df.data[1].temperature_2m)
         /\ FloatOk(df.data[1].wind_speed_10m)
    [] OTHER -> FALSE

\* the sources Agent 1 has an insight for
HasInsight(choice_key) ==
  choice_key \in {"coingecko", "usgs_quakes", "fx_rates", "open_meteo"}

\* ------------------------------------------------------------------------
\* The two agents
\* ------------------------------------------------------------------------
\* df is None
IsNone(df) == "t" \in DOMAIN df

NoRowsMsg == "No usable rows for analysis."

\* agent_1 with the slip of testing only "df is None"
agent_1_NoneOnly(choice_key, df, raw) ==
  LET header == <<Item("agent1_header", Null)>>
      steps == <<Str("Extract"), Str("Transform"), Str("Load")>>
      msg == IF HasInsight(choice_key) /\ InsightOk(choice_key, df)
             THEN Append(steps, Str("Insight")) ELSE steps
  IN IF IsNone(df)
     THEN [out |-> header, exc |-> Str(NoRowsMsg)]
     ELSE [out |-> header \o
                   <<Item("agent1_success", Num(Length(df))),
                     Item("agent1_markdown", List(msg))>>,
           exc |-> Null]

\* agent_1 without the try block around the insight: a failed aggregate raises
agent_1_InsightRaises(choice_key, df, raw) ==
  LET header == <<Item("agent1_header", Null)>>
      steps == <<Str("Extract"), Str("Transform"), Str("Load")>>
  IN IF IsNone(df) \/ Empty(df)
     THEN [out |-> header, exc |-> Str(NoRowsMsg)]
     ELSE IF HasInsight(choice_key) /\ ~InsightOk(choice_key, df)
     THEN [out |-> header \o <<Item("agent1_success", Num(Length(df)))>>,
           exc |-> Str("insight failed")]
     ELSE [out |-> header \o
                   <<Item("agent1_success", Num(Length(df))),
                     Item("agent1_markdown",
                          List(IF HasInsight(choice_key)
                               THEN Append(steps, Str("Insight")) ELSE steps))>>,
           exc |-> Null]

\* agent_1: what it shows, and the exception it raises (Null: none)
agent_1(choice_key, df, raw) ==
  LET header == <<Item("agent1_header", Null)>>
      steps == <<Str("Extract"), Str("Transform"), Str("Load")>>
      msg == IF HasInsight(choice_key) /\ InsightOk(choice_key, df)
             THEN Append(steps, Str("Insight")) ELSE steps
  IN IF IsNone(df) \/ Empty(df)
     THEN [out |-> header, exc |-> Str(NoRowsMsg)]
     ELSE [out |-> header \o
                   <<Item("agent1_success", Num(Length(df))),
                     Item("agent1_markdown", List(msg))>>,
           exc |-> Null]

\* agent_2: the static message naming the source and the endpoint
agent_2(choice_key, df, raw, url) ==
  <<Item("agent2_header", Null),
    Item("agent2_info", Null),
    Item("agent2_markdown", List(<<Label(choice_key), Str(url)>>))>>

\* agentic_commentary with Agent 2 in a finally block instead of the except block
agentic_commentary_Finally(choice_key, df, raw, url) ==
  LET a1 == agent_1(choice_key, df, raw)
  IN a1.out \o
     (IF a1.exc.t = "null" THEN <<>> ELSE <<Item("agent1_paused", a1.exc)>>) \o
     agent_2(choice_key, df, raw, url)

\* agentic_commentary: Agent 1, and on any exception the warning and Agent 2
agentic_commentary(choice_key, df, raw, url) ==
  LET a1 == agent_1(choice_key, df, raw)
  IN IF a1.exc.t = "null" THEN a1.out
     ELSE a1.out \o <<Item("agent1_paused", a1.exc)>> \o agent_2(choice_key, df, raw, url)

\* ------------------------------------------------------------------------
\* The refresh cycle (the module-level script)
\* ------------------------------------------------------------------------
VARIABLES
  pc,       \* where the page run is
  choice,   \* the source ticked in the sidebar
  request,  \* the GET sent by fetch
  resp,     \* what the GET did (an outcome, see fetch)
  raw,      \* fetch's payload
  err,      \* fetch's error
  df,       \* the data frame (Null: not assigned yet)
  ui,       \* what the page shows, in order
  exc       \* the exception that ended the run (Null: none)

vars == <<pc, choice, request, resp, raw, err, df, ui, exc>>

Init ==
  /\ pc = "start"
  /\ choice = SourceKeys[1]
  /\ request = Null
  /\ resp = Null
  /\ raw = Null
  /\ err = Null
  /\ df = Null
  /\ ui = <<>>
  /\ exc = Null

\* the sidebar radio: exactly one of the ten sources is selected
Select ==
  /\ pc = "start"
  /\ \E k \in SOURCES : choice' = k
  /\ pc' = "extract"
  /\ UNCHANGED <<request, resp, raw, err, df, ui, exc>>

\* url = SOURCES[choice][1]; raw, err = fetch(url)
Extract ==
  /\ pc = "extract"
  /\ \E o \in Outcomes(choice) :
       LET url == Url(choice)
           r == fetch(url, o)
       IN /\ request' = [url |-> url, headers |-> Hdrs(url), timeout |-> Timeout]
          /\ resp' = o
          /\ raw' = r[1]
          /\ err' = r[2]
  /\ ui' = Append(ui, Item("source_pill", Label(choice)))
  /\ pc' = "fetched"
  /\ UNCHANGED <<choice, df, exc>>

\* the test with the slip of leaving out "raw is None"
FetchFailed_ErrOnly == Truthy(err)

\* if err or raw is None
FetchFailed == Truthy(err) \/ raw.t = "null"

\* the branch of a failed fetch: the notice, the caption, an empty frame
SourceDown ==
  /\ pc = "fetched"
  /\ FetchFailed
  /\ ui' = ui \o <<Item("source_down", Null), Item("caption", Str(Url(choice)))>>
  /\ df' = EmptyFrame
  /\ pc' = "agents"
  /\ UNCHANGED <<choice, request, resp, raw, err, exc>>

\* df = normalize_to_df(choice, raw), outside any try block: an exception
\* ends the page run
Transform ==
  /\ pc = "fetched"
  /\ ~FetchFailed
  /\ LET r == normalize_to_df(choice, raw)
     IN IF r.ok
        THEN /\ df' = r.val
             /\ pc' = "load"
             /\ exc' = exc
        ELSE /\ df' = df
             /\ pc' = "crashed"
             /\ exc' = Str(r.exc)
  /\ UNCHANGED <<choice, request, resp, raw, err, ui>>

\* if df.empty: the notice and the caption
LoadEmpty ==
  /\ pc = "load"
  /\ Empty(df)
  /\ ui' = ui \o <<Item("no_rows", Null), Item("caption", Str(Url(choice)))>>
  /\ pc' = "agents"
  /\ UNCHANGED <<choice, request, resp, raw, err, df, exc>>

\* the chart column: a bar chart for three sources, and the note whenever
\* drawing raises (drawn: st.bar_chart returned)
Chart(drawn) ==
  CASE choice \in {"coingecko", "fx_rates"} ->
         IF drawn THEN "bar_chart" ELSE "chart_unavailable"
    [] choice = "usgs_quakes" ->
         IF Len(NonNull(df, "mag")) = 0 THEN "no_magnitudes"
         ELSE IF drawn THEN "bar_chart" ELSE "chart_unavailable"
    [] OTHER -> "chart_unavailable"

\* else: the endpoint, the table and the chart (st.code and st.dataframe are
\* taken to return; only the chart is inside a try block)
LoadTable(drawn) ==
  /\ pc = "load"
  /\ ~Empty(df)
  /\ ui' = ui \o <<Item("endpoint", Str(Url(choice))),
                   Item("table", Num(Length(df))),
                   Item(Chart(drawn), Null)>>
  /\ pc' = "agents"
  /\ UNCHANGED <<choice, request, resp, raw, err, df, exc>>

\* agentic_commentary(choice_key=choice, df=df, raw=raw, url=url)
Agents ==
  /\ pc = "agents"
  /\ ui' = ui \o <<Item("agents_title", Null)>> \o
           agentic_commentary(choice, df, raw, Url(choice))
  /\ pc' = "done"
  /\ UNCHANGED <<choice, request, resp, raw, err, df, exc>>

\* st_autorefresh(interval=60_000): the script runs again from the top, with
\* the selection kept
Refresh ==
  /\ pc \in {"done", "crashed"}
  /\ pc' = "start"
  /\ request' = Null
  /\ resp' = Null
  /\ raw' = Null
  /\ err' = Null
  /\ df' = Null
  /\ ui' = <<>>
  /\ exc' = Null
  /\ UNCHANGED choice

Next ==
  \/ Select
  \/ Extract
  \/ SourceDown
  \/ Transform
  \/ LoadEmpty
  \/ \E drawn \in BOOLEAN : LoadTable(drawn)
  \/ Agents
  \/ Refresh

Spec == Init /\ [][Next]_vars

\* ------------------------------------------------------------------------
\* agentic_commentary called on its own: every source, with no frame (None)
\* or the frame of any payload that normalizes
\* ------------------------------------------------------------------------
CallInit ==
  /\ pc = "call"
  /\ choice \in SOURCES
  /\ raw \in {p \in Payloads(choice) : normalize_to_df(choice, p).ok}
  /\ df \in {Null, normalize_to_df(choice, raw).val}
  /\ request = Null
  /\ resp = Null
  /\ err = Null
  /\ ui = <<>>
  /\ exc = Null

Call ==
  /\ pc = "call"
  /\ ui' = agentic_commentary(choice, df, raw, Url(choice))
  /\ pc' = "returned"
  /\ UNCHANGED <<choice, request, resp, raw, err, df, exc>>

CallNext == Call

CallSpec == CallInit /\ [][CallNext]_vars

\* ------------------------------------------------------------------------
\* Properties
\* ------------------------------------------------------------------------
Shown(kind) == \E i \in 1..Len(ui) : ui[i].kind = kind

\* the page run has passed the branch on the fetch result
PastExtract == pc \in {"load", "agents", "done", "crashed"}

\* C1: no condition is fatal to a refresh cycle: whatever the source and
\* whatever the GET does, no exception escapes the cycle, and a cycle that
\* ends has shown the table or one of the two worded notices.
C1_NoFatalCondition ==
  /\ pc # "crashed"
  /\ exc.t = "null"
  /\ pc = "done" => Shown("table") \/ Shown("source_down") \/ Shown("no_rows")

\* C2: normalize_to_df never raises: for every source and every payload that
\* is not None it returns a data frame.
C2_NormalizeNeverRaises ==
  pc = "fetched" /\ raw.t # "null" => normalize_to_df(choice, raw).ok

\* the GET failed: requests raised, or the status is an error status
GetFailed == resp.kind = "exc" \/ RaisesForStatus(resp.status)

\* C3 as stated: fetch returns a payload that is not None with no error, or
\* None with an error message; None is never paired with no error.
C3_TwoShapesOnly ==
  pc = "fetched" => (raw.t = "null" <=> err.t # "null")

\* C3 as amended: fetch returns (None, error message) exactly when the GET
\* failed, and otherwise (the parsed JSON value or the raw text, no error); a
\* payload that is not None is never paired with an error, and None is paired
\* with no error only when the body parsed is the JSON value null.
C3_FetchShapes ==
  pc = "fetched" =>
    /\ err.t \in {"null", "str"}
    /\ err.t = "str" <=> GetFailed
    /\ err.t = "str" => raw.t = "null"
    /\ err.t = "null" => raw = resp.body
    /\ raw.t = "null" /\ err.t = "null" =>
         resp.kind = "resp" /\ resp.json /\ resp.body.t = "null"

\* C3 witness: an error status gave (None, message), and so did a body of null
\* give (None, no error) in another cycle
C3_Witness ==
  /\ pc = "fetched"
  /\ resp.kind = "resp"
  /\ \/ RaisesForStatus(resp.status) /\ raw.t = "null" /\ err.t = "str"
     \/ resp.status = 200 /\ resp.body.t = "null" /\ raw.t = "null" /\ err.t = "null"

\* the fixed field set of the rows of each source
Fields(k) ==
  CASE k = "openaq" -> {"city", "parameter", "value", "unit", "updated"}
    [] k = "open_meteo" -> {"temperature_2m", "wind_speed_10m", "time"}
    [] k = "coingecko" -> {"asset", "usd"}
    [] k = "usgs_quakes" -> {"time", "mag", "place", "type"}
    [] k = "spacex" -> {"name", "date_utc", "success", "flight_number"}
    [] k = "github_events" -> {"type", "repo", "actor", "created_at"}
    [] k = "nws_alerts" -> {"event", "area", "severity", "sent"}
    [] k = "fx_rates" -> {"pair", "rate", "date"}
    [] k = "iss_now" -> {"latitude", "longitude", "timestamp"}
    [] OTHER -> {"symbol", "price"}

\* C4: for each of the ten sources, every row normalize_to_df produces has
\* exactly the source's fixed field set (a field the payload lacks is a null
\* cell of the row, never a missing one).
C4_FixedFieldSet ==
  pc = "load" => \A i \in 1..Length(df) : DOMAIN df.data[i] = Fields(choice)

\* the items of a kind the page shows, in order
ItemsOf(kind) == SelectSeq(ui, LAMBDA x : x.kind = kind)

\* the aggregate of Agent 1's insight failed on a frame that has rows
AggregateFailed == HasInsight(choice) /\ ~Empty(df) /\ ~InsightOk(choice, df)

ThreeSteps == List(<<Str("Extract"), Str("Transform"), Str("Load")>>)

Fallback(k) ==
  <<Item("agent1_header", Null),
    Item("agent1_paused", Str("No usable rows for analysis.")),
    Item("agent2_header", Null),
    Item("agent2_info", Null),
    Item("agent2_markdown", List(<<Label(k), Str(Url(k))>>))>>

\* C6: given zero rows (an empty frame or no frame at all) for any of the ten
\* sources, agentic_commentary returns with the fallback: Agent 1's pause
\* warning and Agent 2's static message naming the source and its endpoint.
C6_ZeroRowsFallback ==
  pc = "returned" /\ (IsNone(df) \/ Empty(df)) => ui = Fallback(choice)

\* C6 witness: the call returned for a frame that is empty and not None
C6_Witness ==
  /\ pc = "returned"
  /\ ~IsNone(df)
  /\ Empty(df)
  /\ choice = "usgs_quakes"
  /\ Shown("agent2_markdown")

\* fetch reported an error or a null payload
FetchReportedFailure == err.t # "null" \/ raw.t = "null"

RECURSIVE SumTo(_, _)
SumTo(f, n) == IF n = 0 THEN 0 ELSE f[n] + SumTo(f, n - 1)

\* two cells agree: the same value, or both null
SameCell(a, b) == a = b \/ (IsNull(a) /\ IsNull(b))

\* the results of an air-quality payload, and the measurements of each
ResultsOf(p) == Iter(Get(p, "results", List(<<>>)).val).val
MeasOf(res) == Iter(Get(res, "measurements", List(<<>>)).val).val

\* C8: for the air-quality source the frame has one row per leaf measurement:
\* as many rows as the measurements lists of the results have items together,
\* in result order then measurement order, each with the city of its result.
C8_OpenaqFlattens ==
  pc = "load" /\ choice = "openaq" =>
    LET res == ResultsOf(raw)
        cnt == [i \in 1..Len(res) |-> Len(MeasOf(res[i]))]
        off(i) == SumTo(cnt, i - 1)
    IN /\ Length(df) = SumTo(cnt, Len(res))
       /\ \A i \in 1..Len(res) : \A j \in 1..cnt[i] :
            /\ SameCell(df.data[off(i) + j].city, Field(res[i], "city"))
            /\ SameCell(df.data[off(i) + j].parameter,
                        Field(MeasOf(res[i])[j], "parameter"))
            /\ SameCell(df.data[off(i) + j].value,
                        Field(MeasOf(res[i])[j], "value"))

\* C8 witness: two results, the first without measurements and the second
\* with two, gave the two rows of the second result's city
C8_Witness ==
  /\ pc = "load"
  /\ choice = "openaq"
  /\ Len(ResultsOf(raw)) = 2
  /\ Len(MeasOf(ResultsOf(raw)[1])) = 0
  /\ Len(MeasOf(ResultsOf(raw)[2])) = 2
  /\ Length(df) = 2
  /\ df.data[1].city = Str("Lima")
  /\ df.data[2].city = Str("Lima")

\* the payload {"bitcoin": {"usd": 65000}, "ethereum": {"usd": 3200}}
CryptoLiteral ==
  Obj(<< <<"bitcoin", Obj(<< <<"usd", Num(65000)>> >>)>>,
         <<"ethereum", Obj(<< <<"usd", Num(3200)>> >>)>> >>)

\* C9: for the crypto source the frame has exactly one row per top-level key
\* of the payload, in payload order, with asset the key and usd the entry's
\* usd (null if absent); the literal payload gives exactly its two rows.
C9_CoingeckoRows ==
  pc = "load" /\ choice = "coingecko" =>
    /\ Length(df) = Len(raw.v)
    /\ \A i \in 1..Len(raw.v) :
         /\ df.data[i].asset = Str(raw.v[i][1])
         /\ IF HasKey(raw.v[i][2], "usd")
            THEN SameCell(df.data[i].usd, Lookup(raw.v[i][2], "usd"))
            ELSE IsNull(df.data[i].usd)
    /\ raw = CryptoLiteral =>
         df.data = <<[asset |-> Str("bitcoin"), usd |-> Num(65000)],
                     [asset |-> Str("ethereum"), usd |-> Num(3200)]>>

\* C9 witness: the literal payload was normalized to two rows
C9_Witness ==
  /\ pc = "load"
  /\ choice = "coingecko"
  /\ raw = CryptoLiteral
  /\ Length(df) = 2

\* some notice is shown before Agent 2's message
NoticeThenFallback ==
  \E i, j \in 1..Len(ui) :
    /\ i < j
    /\ ui[i].kind \in {"source_down", "no_rows"}
    /\ ui[j].kind = "agent2_markdown"

\* C10: in a cycle that went through the commentary step exactly one of the
\* two commentaries completed, fixed by the row set alone: Agent 1's (the
\* success line with the record count) iff the frame is not empty, which is
\* iff the table was rendered; Agent 2's iff the frame is empty, so that each
\* notice is followed by the fallback in the same cycle.
C10_OneCommentaryByRows ==
  pc = "done" =>
    /\ Shown("agent1_success") <=> ~Empty(df)
    /\ Shown("table") <=> ~Empty(df)
    /\ Shown("agent2_markdown") <=> Empty(df)
    /\ Shown("agent1_markdown") <=> ~Shown("agent2_markdown")
    /\ ~Empty(df) =>
         ItemsOf("agent1_success") = <<Item("agent1_success", Num(Length(df)))>>
    /\ Shown("source_down") \/ Shown("no_rows") => NoticeThenFallback
    /\ Empty(df) => Shown("source_down") \/ Shown("no_rows")

\* C10 witness: a cycle showed the "no rows" notice and then the fallback
C10_Witness ==
  /\ pc = "done"
  /\ Shown("no_rows")
  /\ NoticeThenFallback
  /\ ~Shown("agent1_success")

====
